---- MODULE Spec2Model ----
(***************************************************************************)
(* Attendify mobile wrapper: the page bridge injected into the WebView,    *)
(* the host message router (handleMessage), the registration and           *)
(* verification handlers, and the two AsyncStorage blobs.                  *)
(*                                                                         *)
(* Host and page each run a cooperative event loop.  A handler runs        *)
(* without interruption up to its next await; every await is a point       *)
(* where other messages may be dispatched.  AsyncStorage requests are      *)
(* served one at a time in the order they were issued.  injectJavaScript   *)
(* queues a script for the page; a posted message is dispatched by the     *)
(* host when it is posted.  A handler sees the storedCredentials value of the render in      *)
(* which its handleMessage closure was created (useCallback dependency     *)
(* [storedCredentials]); the re-render that follows setStoredCredentials   *)
(* is taken together with it.  webViewRef.current is the mounted WebView   *)
(* throughout.  The success banner of lines 776-830 only appends a         *)
(* transient element to the page and is left out.                          *)
(***************************************************************************)
EXTENDS Integers, Sequences, FiniteSets, TLC

VARIABLES
  storedCredentials,  \* React state: ordered map ownerKey -> Credential Record
  persistedCreds,     \* blob under WEBAUTHN_CREDENTIALS_KEY
  persistedLog,       \* blob under VERIFICATION_RECORDS_KEY
  storageQueue,       \* AsyncStorage requests issued and not yet served
  handlers,           \* one entry per handleMessage invocation, in dispatch order
  scriptQueue,        \* scripts injected by the host, not yet run by the page
  pendingCreate,      \* window._pendingWebAuthnCreate (0 = null, else promise)
  pendingGet,         \* window._pendingWebAuthnGet    (0 = null, else promise)
  promises,           \* promises returned by the intercepted create/get calls
  hiddenField,        \* credential value present in the page (0 = none, see PageValues)
  extractTimer,       \* the 2000 ms setTimeout of the bridge is still pending
  autoTimers,         \* auto-fill/auto-submit timers set by the completion entry points
  fabCount,           \* number of generateRealisticCredentialId calls so far
  posted,             \* number of calls the page made so far (create, get, own posts)
  appended,           \* records handed to saveVerificationRecord (sequential run)
  fabIn,              \* fabricator input: clock, random digits, platform tag
  fabOut,             \* fabricator output (sequence of characters)
  ticks,              \* setInterval callbacks run since the page's field last changed
  wiped               \* ids of the records that existed when a Clear All completed

vars == <<storedCredentials, persistedCreds, persistedLog, storageQueue,
          handlers, scriptQueue, pendingCreate, pendingGet, promises,
          hiddenField, extractTimer, autoTimers, fabCount, posted, appended,
          fabIn, fabOut, ticks, wiped>>

hostVars == <<storedCredentials, persistedCreds, persistedLog, storageQueue,
              handlers, fabCount>>
pageVars == <<pendingCreate, pendingGet, promises, hiddenField, extractTimer,
              autoTimers>>
fabVars  == <<fabIn, fabOut>>
otherVars == <<ticks, wiped>>

(***************************************************************************)
(* Bounds                                                                  *)
(***************************************************************************)
MaxMsgs == 2        \* bridge messages posted in one run of the whole application
MaxRegs == 2        \* messages posted in a registration-only run
MaxVers == 2        \* messages posted in a verification-only run
MaxAppends == 52    \* sequential appends in the sequential-log run
MaxWaits == 1       \* messages posted in the fair verification run
MaxClock == 40      \* largest Date.now() value given to the fabricator
MaxFrac == 2        \* longest short random fraction given to the fabricator
MaxCalls == 1       \* calls and posts of the page in an attendance-page run
MaxSlotCalls == 2   \* create and get calls of the page in a slot run
MaxTicks == 2       \* setInterval callbacks counted after a change of the page
MaxDebugCalls == 1  \* create calls of the page in a run with the debug panel
MaxPosts == 1       \* calls and posts of the page in a run with extraction posts
MaxDrops == 2       \* calls and posts of the page in a run with dropped posts
MaxOverlap == 2     \* get calls of the page in a run whose storage never fails

(***************************************************************************)
(* Program constants                                                       *)
(***************************************************************************)
LogCap == 50        \* records.slice(-50)
RandomLen == 13     \* substring(2, 15)

(***************************************************************************)
(* Values                                                                  *)
(***************************************************************************)
NoId == [src |-> "none", n |-> 0]
FabId(n) == [src |-> "fab", n |-> n]
PageId(v) == [src |-> "page", n |-> v]
OldId == [src |-> "old", n |-> 1]

UserNames == {"alice", "7"}
StudentIds == {"s1"}
\* credential values a page can carry: 1 = a hidden input named like a credential
\* (found by both page scans), 2 = a data-credential-id attribute (found only
\* by the scan the verification handler injects)
PageValues == {1, 2}
TimerFinds(v) == v = 1
ScanFinds(v) == v \in {1, 2}

NoInput == [ts |-> 0, frac |-> <<>>, os |-> <<>>]

NullBlob == [kind |-> "null", val |-> <<>>]
JsonBlob(v) == [kind |-> "json", val |-> v]
\* a stored string that JSON.parse rejects
BadBlob == [kind |-> "bad", val |-> <<>>]

(***************************************************************************)
(* Object semantics of the credential map: integer-like keys come first in *)
(* ascending order, the other keys follow in insertion order; assigning an *)
(* existing key keeps its position.                                        *)
(***************************************************************************)
IsIndexKey(k) == k \in {"7"}
IndexVal(k) == IF k = "7" THEN 7 ELSE 0

HasKey(map, k) == \E i \in 1..Len(map) : map[i].key = k
Lookup(map, k) == map[CHOOSE i \in 1..Len(map) : map[i].key = k]
Keys(map) == {map[i].key : i \in 1..Len(map)}

InsertAt(s, i, e) == SubSeq(s, 1, i - 1) \o <<e>> \o SubSeq(s, i, Len(s))

Put(map, k, rec) ==
  IF HasKey(map, k)
  THEN [i \in 1..Len(map) |-> IF map[i].key = k THEN rec ELSE map[i]]
  ELSE IF IsIndexKey(k)
       THEN InsertAt(map,
              1 + Cardinality({i \in 1..Len(map) :
                     IsIndexKey(map[i].key) /\ IndexVal(map[i].key) < IndexVal(k)}),
              rec)
       ELSE Append(map, rec)

CredRecord(k, id, type) == [key |-> k, id |-> id, type |-> type]

\* saveCredential, lines 73-86: the map built from the closure's storedCredentials
NormalizedUserId(userId) == IF userId = "" THEN "user_now" ELSE userId
updatedCredentials(closure, userId, id, type) ==
  Put(closure, NormalizedUserId(userId),
      CredRecord(NormalizedUserId(userId), id, type))

RegistrationKey_Mut(userIdentifier) == "default_user"

\* handleWebAuthnRegistration, line 518: data.userIdentifier || 'default_user'
RegistrationKey(userIdentifier) ==
  IF userIdentifier = "" THEN "default_user" ELSE userIdentifier

StoredCredentialId_Mut(closure) == NoId

\* handleWebAuthnVerification, lines 613-624: the first stored credential's id
StoredCredentialId(closure) ==
  IF Len(closure) > 0 /\ closure[1].id # NoId THEN closure[1].id ELSE NoId

SliceLast_Mut(records) == records

\* saveVerificationRecord, lines 969-972
SliceLast(records) ==
  IF Len(records) > LogCap
  THEN SubSeq(records, Len(records) - LogCap + 1, Len(records))
  ELSE records
ParsedRecords(blob) == IF blob.kind = "json" THEN blob.val ELSE <<>>
RecordsToWrite_Mut(blob, record) == Append(SliceLast(ParsedRecords(blob)), record)
RecordsToWrite(blob, record) == SliceLast(Append(ParsedRecords(blob), record))

VerificationRecord(ts, studentId, id, success) ==
  [ts |-> ts, studentId |-> IF studentId = "" THEN "unknown" ELSE studentId,
   credentialId |-> id, success |-> success]

\* lines 929-936: the record of the catch block (no credentialId, error text)
ErrorRecord(ts, studentId, error) ==
  [ts |-> ts, studentId |-> IF studentId = "" THEN "unknown" ELSE studentId,
   success |-> FALSE, error |-> error]

OldLog(n) == [i \in 1..n |-> VerificationRecord(i - n, "s1", OldId, TRUE)]
OldCreds == <<CredRecord("alice", OldId, "fingerprint")>>

(***************************************************************************)
(* Bridge messages, injected scripts, storage requests, handler records    *)
(***************************************************************************)
Message(type, user, cid, p) == [type |-> type, user |-> user, cid |-> cid, p |-> p]
Script(h, kind, id) == [h |-> h, kind |-> kind, id |-> id]
Request(h, op, val) == [h |-> h, op |-> op, val |-> val]

NewHandler(msg, closure, pc) ==
  [type |-> msg.type, user |-> msg.user, cid |-> msg.cid, p |-> msg.p,
   closure |-> closure, pc |-> pc, auth |-> "none", cred |-> NoId,
   fabricated |-> 0, scripts |-> <<>>, alerts |-> <<>>, newRecs |-> 0,
   stored |-> "none", logged |-> <<>>]

\* fields of a handler record: type, user, cid, p are the message; closure is
\* the storedCredentials the handler sees; pc is the await it is suspended at;
\* auth is the result of authenticateAsync; cred the credential id it chose;
\* fabricated the number of generateRealisticCredentialId calls it made;
\* scripts the scripts it injected; alerts the Alert.alert titles it raised;
\* newRecs the Credential Records it built; stored the outcome of its awaited
\* credential setItem; logged the records it gave to saveVerificationRecord
Inject(h, kind, id) == Append(handlers[h].scripts, [kind |-> kind, id |-> id])

Served(h, pc) ==
  /\ h \in 1..Len(handlers)
  /\ handlers[h].pc = pc
  /\ storageQueue # <<>>
  /\ Head(storageQueue).h = h

(***************************************************************************)
(* Identifier fabricator.  Strings are sequences of character codes.       *)
(***************************************************************************)
Plus == 43
Slash == 47
Pad == 61
Minus == 45
Underscore == 95

\* Number.prototype.toString(36): one base-36 digit as a character
DigitChar(d) == IF d < 10 THEN 48 + d ELSE 87 + d

RECURSIVE ToBase36(_)
ToBase36(n) ==
  IF n < 36 THEN <<DigitChar(n)>>
  ELSE Append(ToBase36(n \div 36), DigitChar(n % 36))

\* Math.random().toString(36).substring(2, 15), line 943; frac holds the
\* base-36 digits after "0."
RandomPart(frac) ==
  [i \in 1..(IF Len(frac) < RandomLen THEN Len(frac) ELSE RandomLen) |->
      DigitChar(frac[i])]

\* the base64 alphabet of btoa
B64Char(i) ==
  IF i < 26 THEN 65 + i
  ELSE IF i < 52 THEN 97 + (i - 26)
  ELSE IF i < 62 THEN 48 + (i - 52)
  ELSE IF i = 62 THEN Plus ELSE Slash

RECURSIVE btoa(_)
btoa(b) ==
  IF Len(b) = 0 THEN <<>>
  ELSE IF Len(b) = 1
       THEN <<B64Char(b[1] \div 4), B64Char((b[1] % 4) * 16), Pad, Pad>>
  ELSE IF Len(b) = 2
       THEN <<B64Char(b[1] \div 4), B64Char((b[1] % 4) * 16 + b[2] \div 16),
              B64Char((b[2] % 16) * 4), Pad>>
  ELSE <<B64Char(b[1] \div 4), B64Char((b[1] % 4) * 16 + b[2] \div 16),
         B64Char((b[2] % 16) * 4 + b[3] \div 64), B64Char(b[3] % 64)>>
       \o btoa(SubSeq(b, 4, Len(b)))

\* String.prototype.replace with a global single-character pattern
ReplaceAll(str, from, to) ==
  [i \in 1..Len(str) |-> IF str[i] = from THEN to ELSE str[i]]

StripPadding_Mut(str) == str

\* .replace(/=+$/, ''), line 950
RECURSIVE StripPadding(_)
StripPadding(str) ==
  IF str # <<>> /\ str[Len(str)] = Pad
  THEN StripPadding(SubSeq(str, 1, Len(str) - 1))
  ELSE str

Suffix == <<97, 116, 116, 101, 110, 100, 105, 102, 121>>          \* "attendify"
Platforms == {<<105, 111, 115>>,                                  \* "ios"
              <<97, 110, 100, 114, 111, 105, 100>>}               \* "android"

\* line 946: the template string handed to btoa
IdSource(in) ==
  ToBase36(in.ts) \o <<Underscore>> \o RandomPart(in.frac) \o <<Underscore>>
    \o in.os \o <<Underscore>> \o Suffix

\* lines 940-954
generateRealisticCredentialId(in) ==
  StripPadding(ReplaceAll(ReplaceAll(btoa(IdSource(in)), Plus, Minus),
                          Slash, Underscore))

(***************************************************************************)
(* Host: storage                                                           *)
(***************************************************************************)
\* useEffect at mount / Reload button: loadStoredCredentials, served request
loadStoredCredentials(ok) ==
  /\ storageQueue # <<>>
  /\ Head(storageQueue).op = "getCreds"
  /\ storageQueue' = Tail(storageQueue)
  /\ storedCredentials' =
       IF ok /\ persistedCreds.kind = "json" THEN persistedCreds.val
       ELSE storedCredentials
  /\ UNCHANGED <<persistedCreds, persistedLog, handlers, fabCount, scriptQueue,
                 posted, appended>>
  /\ UNCHANGED pageVars /\ UNCHANGED fabVars /\ UNCHANGED otherVars

\* saveCredential up to its await: setStoredCredentials and the setItem request
saveCredentialStart(h, closure, userId, id, type) ==
  /\ storedCredentials' = updatedCredentials(closure, userId, id, type)
  /\ storageQueue' = Append(storageQueue,
        Request(h, "setCreds", updatedCredentials(closure, userId, id, type)))

\* saveVerificationRecord up to its first await: the getItem request
saveVerificationRecordStart(h) ==
  storageQueue' = Append(storageQueue, Request(h, "getLog", <<>>))

\* the ids held by a credential map
Ids(map) == {map[i].id : i \in 1..Len(map)}
ParsedCredentials(blob) == IF blob.kind = "json" THEN blob.val ELSE <<>>

\* DebugOverlay, "Reload Credentials" onPress, lines 1015-1018
reloadPress ==
  /\ storageQueue' = Append(storageQueue, Request(0, "getCreds", <<>>))
  /\ UNCHANGED <<storedCredentials, persistedCreds, persistedLog, handlers,
                 fabCount, scriptQueue, posted, appended>>
  /\ UNCHANGED pageVars /\ UNCHANGED fabVars /\ UNCHANGED otherVars

\* DebugOverlay, "Clear All" onPress up to its await, lines 1022-1023
clearAllPress ==
  /\ storageQueue' = Append(storageQueue, Request(0, "removeCreds", <<>>))
  /\ UNCHANGED <<storedCredentials, persistedCreds, persistedLog, handlers,
                 fabCount, scriptQueue, posted, appended>>
  /\ UNCHANGED pageVars /\ UNCHANGED fabVars /\ UNCHANGED otherVars

\* the awaited removeItem is served, then setStoredCredentials({}): lines 1023-1024
clearAllServed(ok) ==
  /\ storageQueue # <<>>
  /\ Head(storageQueue).op = "removeCreds"
  /\ storageQueue' = Tail(storageQueue)
  /\ IF ok
     THEN /\ persistedCreds' = NullBlob
          /\ storedCredentials' = <<>>
          /\ wiped' = wiped \cup Ids(storedCredentials)
                             \cup Ids(ParsedCredentials(persistedCreds))
     ELSE UNCHANGED <<persistedCreds, storedCredentials, wiped>>
  /\ UNCHANGED <<persistedLog, handlers, fabCount, scriptQueue, posted,
                 appended, ticks>>
  /\ UNCHANGED pageVars /\ UNCHANGED fabVars

(***************************************************************************)
(* Host: handleMessage                                                     *)
(***************************************************************************)
BiometricUnavailable_Mut(hasHardware, isEnrolled) == ~hasHardware

\* handleWebAuthnVerification, line 590
BiometricUnavailable(hasHardware, isEnrolled) == ~hasHardware \/ ~isEnrolled

ExtractionKey_Mut == "user_now"

\* line 479: the owner key of every extracted credential
ExtractionKey == "extracted_user"

handleMessage_Mut(msg, hasHardware, isEnrolled) ==
  LET h == Len(handlers) + 1
      new(pc) == NewHandler(msg, storedCredentials, pc)
  IN CASE msg.type = "webauthn_create" ->
            /\ handlers' = Append(handlers, new("reg_prompt"))
            /\ UNCHANGED <<storedCredentials, storageQueue>>
       [] msg.type = "extracted_credential" /\ msg.cid # NoId ->
            /\ handlers' = Append(handlers,
                  [new("ext_write") EXCEPT !.newRecs = 1, !.cred = msg.cid])
            /\ saveCredentialStart(h, storedCredentials, ExtractionKey,
                                   msg.cid, "extracted")
       [] OTHER ->
            /\ handlers' = Append(handlers,
                  IF BiometricUnavailable(hasHardware, isEnrolled)
                  THEN [new("done") EXCEPT !.alerts = <<"Biometric Unavailable">>]
                  ELSE new("ver_prompt"))
            /\ UNCHANGED <<storedCredentials, storageQueue>>

\* lines 461-498, and for the verification types lines 587-593 (the two
\* capability queries settle before anything else of the handler runs)
handleMessage(msg, hasHardware, isEnrolled) ==
  LET h == Len(handlers) + 1
      new(pc) == NewHandler(msg, storedCredentials, pc)
  IN CASE msg.type = "webauthn_create" ->
            /\ handlers' = Append(handlers, new("reg_prompt"))
            /\ UNCHANGED <<storedCredentials, storageQueue>>
       [] msg.type \in {"webauthn_get", "mobile_fingerprint_trigger"} ->
            /\ handlers' = Append(handlers,
                  IF BiometricUnavailable(hasHardware, isEnrolled)
                  THEN [new("done") EXCEPT !.alerts = <<"Biometric Unavailable">>]
                  ELSE new("ver_prompt"))
            /\ UNCHANGED <<storedCredentials, storageQueue>>
       [] msg.type = "extracted_credential" /\ msg.cid # NoId ->
            /\ handlers' = Append(handlers,
                  [new("ext_write") EXCEPT !.newRecs = 1, !.cred = msg.cid])
            /\ saveCredentialStart(h, storedCredentials, ExtractionKey,
                                   msg.cid, "extracted")
       [] OTHER ->
            /\ handlers' = Append(handlers, new("done"))
            /\ UNCHANGED <<storedCredentials, storageQueue>>

\* extracted_credential: the awaited setItem of saveCredential is served
extractedWrite(h, ok) ==
  /\ Served(h, "ext_write")
  /\ storageQueue' = Tail(storageQueue)
  /\ persistedCreds' = IF ok THEN JsonBlob(Head(storageQueue).val) ELSE persistedCreds
  /\ handlers' = [handlers EXCEPT ![h].pc = "done",
                                  ![h].stored = IF ok THEN "ok" ELSE "failed"]
  /\ UNCHANGED <<storedCredentials, persistedLog, fabCount, scriptQueue,
                 posted, appended>>
  /\ UNCHANGED pageVars /\ UNCHANGED fabVars /\ UNCHANGED otherVars

(***************************************************************************)
(* Host: handleWebAuthnRegistration                                        *)
(***************************************************************************)
\* result.success: lines 513-523, up to the await inside saveCredential
registrationSucceeded(h) ==
  /\ fabCount' = fabCount + 1
  /\ saveCredentialStart(h, handlers[h].closure,
                         RegistrationKey(handlers[h].user),
                         FabId(fabCount + 1), "fingerprint")
  /\ handlers' = [handlers EXCEPT ![h].pc = "reg_write",
                                  ![h].auth = "success",
                                  ![h].cred = FabId(fabCount + 1),
                                  ![h].fabricated = 1,
                                  ![h].newRecs = 1]
  /\ UNCHANGED scriptQueue

registrationCancelled_Mut(h) ==
  /\ handlers' = [handlers EXCEPT ![h].pc = "done", ![h].auth = "fail"]
  /\ UNCHANGED <<storedCredentials, storageQueue, fabCount, scriptQueue>>

\* !result.success: lines 564-575
registrationCancelled(h) ==
  /\ scriptQueue' = Append(scriptQueue, Script(h, "reject_create", NoId))
  /\ handlers' = [handlers EXCEPT ![h].pc = "done",
                                  ![h].auth = "fail",
                                  ![h].scripts = Inject(h, "reject_create", NoId)]
  /\ UNCHANGED <<storedCredentials, storageQueue, fabCount>>

\* authenticateAsync rejects: lines 576-579
registrationThrew(h) ==
  /\ handlers' = [handlers EXCEPT ![h].pc = "done",
                                  ![h].auth = "throw",
                                  ![h].alerts = Append(@, "Error")]
  /\ UNCHANGED <<storedCredentials, storageQueue, fabCount, scriptQueue>>

\* authenticateAsync settles: lines 506-513
registrationPrompt(h, outcome) ==
  /\ h \in 1..Len(handlers)
  /\ handlers[h].pc = "reg_prompt"
  /\ CASE outcome = "success" -> registrationSucceeded(h)
       [] outcome = "fail" -> registrationCancelled(h)
       [] OTHER -> registrationThrew(h)
  /\ UNCHANGED <<persistedCreds, persistedLog, posted, appended>>
  /\ UNCHANGED pageVars /\ UNCHANGED fabVars /\ UNCHANGED otherVars

\* the awaited setItem of saveCredential is served: lines 89-96 and 525-563, 576-579
registrationWrite(h, ok) ==
  /\ Served(h, "reg_write")
  /\ storageQueue' = Tail(storageQueue)
  /\ IF ok
     THEN /\ persistedCreds' = JsonBlob(Head(storageQueue).val)
          /\ scriptQueue' = Append(scriptQueue,
                                   Script(h, "complete_create", handlers[h].cred))
          /\ handlers' = [handlers EXCEPT
                ![h].pc = "done",
                ![h].stored = "ok",
                ![h].scripts = Inject(h, "complete_create", handlers[h].cred),
                ![h].alerts = Append(@, "Success")]
     ELSE /\ handlers' = [handlers EXCEPT ![h].pc = "done",
                                          ![h].stored = "failed",
                                          ![h].alerts = Append(@, "Error")]
          /\ UNCHANGED <<persistedCreds, scriptQueue>>
  /\ UNCHANGED <<storedCredentials, persistedLog, fabCount, posted, appended>>
  /\ UNCHANGED pageVars /\ UNCHANGED fabVars /\ UNCHANGED otherVars

(***************************************************************************)
(* Host: handleWebAuthnVerification                                        *)
(***************************************************************************)
completeVerification_Mut(h, id, fabricated) ==
  /\ scriptQueue' = Append(scriptQueue, Script(h, "complete_get", id))
  /\ saveVerificationRecordStart(h)
  /\ handlers' = [handlers EXCEPT
        ![h].pc = "ver_log_read",
        ![h].auth = "success",
        ![h].cred = id,
        ![h].fabricated = fabricated,
        ![h].scripts = Inject(h, "complete_get", id),
        ![h].logged = <<VerificationRecord(h, handlers[h].user,
                                           FabId(fabCount + 2), TRUE)>>]

\* lines 684-703 and 840-848: completion script, then saveVerificationRecord
completeVerification(h, id, fabricated) ==
  /\ scriptQueue' = Append(scriptQueue, Script(h, "complete_get", id))
  /\ saveVerificationRecordStart(h)
  /\ handlers' = [handlers EXCEPT
        ![h].pc = "ver_log_read",
        ![h].auth = "success",
        ![h].cred = id,
        ![h].fabricated = fabricated,
        ![h].scripts = Inject(h, "complete_get", id),
        ![h].logged = <<VerificationRecord(h, handlers[h].user, id, TRUE)>>]

\* authResult.success without a stored credential id: lines 626-676
verificationScan(h) ==
  /\ scriptQueue' = Append(scriptQueue, Script(h, "scan", NoId))
  /\ handlers' = [handlers EXCEPT ![h].pc = "ver_scan_wait",
                                  ![h].auth = "success",
                                  ![h].scripts = Inject(h, "scan", NoId)]
  /\ UNCHANGED storageQueue

verificationCancelled_Mut(h) ==
  /\ saveVerificationRecordStart(h)
  /\ handlers' = [handlers EXCEPT
        ![h].pc = "ver_log_read",
        ![h].auth = "fail",
        ![h].alerts = Append(@, "Authentication Failed"),
        ![h].logged = <<VerificationRecord(h, handlers[h].user, NoId, TRUE)>>]
  /\ UNCHANGED scriptQueue

\* !authResult.success: lines 852-916
verificationCancelled(h) ==
  /\ scriptQueue' = Append(scriptQueue, Script(h, "reject_get", NoId))
  /\ handlers' = [handlers EXCEPT
        ![h].pc = "done",
        ![h].auth = "fail",
        ![h].scripts = Inject(h, "reject_get", NoId),
        ![h].alerts = Append(@, "Authentication Failed")]
  /\ UNCHANGED storageQueue

verificationThrew_Mut(h) ==
  /\ handlers' = [handlers EXCEPT ![h].pc = "done",
                                  ![h].auth = "throw",
                                  ![h].alerts = Append(@, "Error")]
  /\ UNCHANGED <<storageQueue, scriptQueue>>

\* authenticateAsync rejects: lines 918-936
verificationThrew(h) ==
  /\ saveVerificationRecordStart(h)
  /\ handlers' = [handlers EXCEPT
        ![h].pc = "ver_log_read",
        ![h].auth = "throw",
        ![h].alerts = Append(@, "Error"),
        ![h].logged = <<ErrorRecord(h, handlers[h].user, "authenticate")>>]
  /\ UNCHANGED scriptQueue

\* authenticateAsync settles: lines 604-627
verificationPrompt(h, outcome) ==
  /\ h \in 1..Len(handlers)
  /\ handlers[h].pc = "ver_prompt"
  /\ CASE outcome = "success" /\ StoredCredentialId(handlers[h].closure) # NoId ->
            completeVerification(h, StoredCredentialId(handlers[h].closure), 0)
       [] outcome = "success" /\ StoredCredentialId(handlers[h].closure) = NoId ->
            verificationScan(h)
       [] outcome = "fail" -> verificationCancelled(h)
       [] OTHER -> verificationThrew(h)
  /\ UNCHANGED <<storedCredentials, persistedCreds, persistedLog, fabCount,
                 posted, appended>>
  /\ UNCHANGED pageVars /\ UNCHANGED fabVars /\ UNCHANGED otherVars

verificationScanTimeout_Mut(h) ==
  /\ h \in 1..Len(handlers)
  /\ handlers[h].pc = "ver_scan_wait"
  /\ \E i \in 1..Len(handlers) : handlers[i].type = "extracted_credential"
  /\ fabCount' = fabCount + 1
  /\ completeVerification(h, FabId(fabCount + 1), 1)
  /\ UNCHANGED <<storedCredentials, persistedCreds, persistedLog, posted,
                 appended>>
  /\ UNCHANGED pageVars /\ UNCHANGED fabVars /\ UNCHANGED otherVars

\* setTimeout(() => resolve(null), 500) fires: lines 672-682
verificationScanTimeout(h) ==
  /\ h \in 1..Len(handlers)
  /\ handlers[h].pc = "ver_scan_wait"
  /\ fabCount' = fabCount + 1
  /\ completeVerification(h, FabId(fabCount + 1), 1)
  /\ UNCHANGED <<storedCredentials, persistedCreds, persistedLog, posted,
                 appended>>
  /\ UNCHANGED pageVars /\ UNCHANGED fabVars /\ UNCHANGED otherVars

\* saveVerificationRecord: the awaited getItem is served, lines 968-972, 975-977
verificationLogRead(h, ok) ==
  /\ Served(h, "ver_log_read")
  /\ IF ok /\ persistedLog.kind # "bad"
     THEN /\ storageQueue' = Append(Tail(storageQueue),
                Request(h, "setLog", RecordsToWrite(persistedLog, handlers[h].logged[1])))
          /\ handlers' = [handlers EXCEPT ![h].pc = "ver_log_write"]
     ELSE /\ storageQueue' = Tail(storageQueue)
          /\ handlers' = [handlers EXCEPT ![h].pc = "done"]
  /\ UNCHANGED <<storedCredentials, persistedCreds, persistedLog, fabCount,
                 scriptQueue, posted, appended>>
  /\ UNCHANGED pageVars /\ UNCHANGED fabVars /\ UNCHANGED otherVars

\* saveVerificationRecord: the awaited setItem is served, lines 972-977
verificationLogWrite(h, ok) ==
  /\ Served(h, "ver_log_write")
  /\ storageQueue' = Tail(storageQueue)
  /\ persistedLog' = IF ok THEN JsonBlob(Head(storageQueue).val) ELSE persistedLog
  /\ handlers' = [handlers EXCEPT ![h].pc = "done"]
  /\ UNCHANGED <<storedCredentials, persistedCreds, fabCount, scriptQueue,
                 posted, appended>>
  /\ UNCHANGED pageVars /\ UNCHANGED fabVars /\ UNCHANGED otherVars

(***************************************************************************)
(* Page bridge                                                             *)
(***************************************************************************)
Promise(kind, user) == [kind |-> kind, user |-> user, state |-> "pending", val |-> NoId]

\* navigator.credentials.create override, lines 120-167; the posted message
\* reaches handleMessage
credentialsCreate(userIdentifier) ==
  /\ promises' = Append(promises, Promise("create", userIdentifier))
  /\ pendingCreate' = Len(promises) + 1
  /\ handleMessage(Message("webauthn_create", userIdentifier, NoId,
                           Len(promises) + 1), TRUE, TRUE)
  /\ posted' = posted + 1
  /\ UNCHANGED <<pendingGet, hiddenField, extractTimer, autoTimers, scriptQueue,
                 appended>>
  /\ UNCHANGED <<persistedCreds, persistedLog, fabCount>> /\ UNCHANGED fabVars /\ UNCHANGED otherVars

\* navigator.credentials.get override on an attendance page, lines 172-230
credentialsGet(studentId, hasHardware, isEnrolled) ==
  /\ promises' = Append(promises, Promise("get", studentId))
  /\ pendingGet' = Len(promises) + 1
  /\ handleMessage(Message("webauthn_get", studentId, NoId, Len(promises) + 1),
                   hasHardware, isEnrolled)
  /\ posted' = posted + 1
  /\ UNCHANGED <<pendingCreate, hiddenField, extractTimer, autoTimers,
                 scriptQueue, appended>>
  /\ UNCHANGED <<persistedCreds, persistedLog, fabCount>> /\ UNCHANGED fabVars /\ UNCHANGED otherVars

GetIntercepted_Mut(hasPublicKey, isAttendancePage) == hasPublicKey

\* lines 175 and 206: the call carries public-key options and the page text
\* has the attendance/verification context
GetIntercepted(hasPublicKey, isAttendancePage) == hasPublicKey /\ isAttendancePage

\* navigator.credentials.get override, lines 172-238: any call of the page; a
\* call that is not intercepted goes to the original get (lines 234, 237)
navigatorCredentialsGet(hasPublicKey, isAttendancePage, studentId, hasHardware, isEnrolled) ==
  IF GetIntercepted(hasPublicKey, isAttendancePage)
  THEN credentialsGet(studentId, hasHardware, isEnrolled)
  ELSE /\ posted' = posted + 1
       /\ UNCHANGED <<scriptQueue, appended>>
       /\ UNCHANGED hostVars /\ UNCHANGED pageVars /\ UNCHANGED fabVars /\ UNCHANGED otherVars

\* setTimeout(..., 2000): extractCredentialsFromPage, lines 414-450
extractCredentialsFromPage ==
  /\ extractTimer
  /\ extractTimer' = FALSE
  /\ IF TimerFinds(hiddenField)
     THEN /\ handleMessage(Message("extracted_credential", "",
                                   PageId(hiddenField), 0), TRUE, TRUE)
     ELSE UNCHANGED <<storedCredentials, storageQueue, handlers>>
  /\ UNCHANGED <<pendingCreate, pendingGet, promises, hiddenField, autoTimers,
                 scriptQueue, posted, appended>>
  /\ UNCHANGED <<persistedCreds, persistedLog, fabCount>> /\ UNCHANGED fabVars /\ UNCHANGED otherVars

\* the remote page's own script posts to the host (manual trigger, other types)
pagePostMessage(type, hasHardware, isEnrolled) ==
  /\ handleMessage(Message(type, "", NoId, 0), hasHardware, isEnrolled)
  /\ posted' = posted + 1
  /\ UNCHANGED <<scriptQueue, appended>>
  /\ UNCHANGED pageVars
  /\ UNCHANGED <<persistedCreds, persistedLog, fabCount>> /\ UNCHANGED fabVars /\ UNCHANGED otherVars

\* the remote page adds a hidden input or a data attribute with a credential
\* value after it has loaded (what the scans of lines 417-425, 638-657 look for)
pageAddsField(v) ==
  /\ hiddenField = 0
  /\ hiddenField' = v
  /\ ticks' = 0
  /\ UNCHANGED <<pendingCreate, pendingGet, promises, extractTimer, autoTimers,
                 scriptQueue, posted, appended, wiped>>
  /\ UNCHANGED hostVars /\ UNCHANGED fabVars

\* setInterval(..., 5000), lines 453-455: addManualFingerprintButton only; it
\* scans no field and posts nothing; its first callback comes after the
\* 2000 ms timer has run
pollInterval ==
  /\ ~extractTimer
  /\ ticks' = ticks + 1
  /\ UNCHANGED <<scriptQueue, posted, appended, wiped>>
  /\ UNCHANGED hostVars /\ UNCHANGED pageVars /\ UNCHANGED fabVars

Settle(p, state, id) == [promises EXCEPT ![p].state = state, ![p].val = id]

completeWebAuthnRegistration_Mut(credentialId) ==
  /\ autoTimers' = autoTimers + 1
  /\ IF pendingCreate # 0
     THEN /\ promises' = Settle(pendingCreate, "resolved", credentialId)
          /\ pendingCreate' = 0
     ELSE UNCHANGED <<promises, pendingCreate>>

\* window.completeWebAuthnRegistration, lines 242-287
completeWebAuthnRegistration(credentialId) ==
  IF pendingCreate # 0
  THEN /\ promises' = Settle(pendingCreate, "resolved", credentialId)
       /\ pendingCreate' = 0
       /\ autoTimers' = autoTimers + 1
  ELSE UNCHANGED <<promises, pendingCreate, autoTimers>>

completeWebAuthnVerification_Mut(credentialId) ==
  IF pendingGet # 0
  THEN /\ promises' = Settle(pendingGet, "resolved", credentialId)
       /\ autoTimers' = autoTimers + 1
       /\ UNCHANGED pendingGet
  ELSE UNCHANGED <<promises, pendingGet, autoTimers>>

\* window.completeWebAuthnVerification, lines 290-342
completeWebAuthnVerification(credentialId) ==
  IF pendingGet # 0
  THEN /\ promises' = Settle(pendingGet, "resolved", credentialId)
       /\ pendingGet' = 0
       /\ autoTimers' = autoTimers + 1
  ELSE UNCHANGED <<promises, pendingGet, autoTimers>>

\* the page runs the next injected script
runInjectedScript ==
  /\ scriptQueue # <<>>
  /\ scriptQueue' = Tail(scriptQueue)
  /\ LET s == Head(scriptQueue)
         hostIdle == UNCHANGED <<storedCredentials, storageQueue, handlers>>
     IN
     CASE s.kind = "complete_create" ->                        \* lines 528-530
            /\ completeWebAuthnRegistration(s.id)
            /\ UNCHANGED pendingGet /\ hostIdle
       [] s.kind = "reject_create" /\ pendingCreate # 0 ->     \* lines 568-571
            /\ promises' = Settle(pendingCreate, "rejected", NoId)
            /\ pendingCreate' = 0
            /\ UNCHANGED <<pendingGet, autoTimers>> /\ hostIdle
       [] s.kind = "complete_get" /\ pendingGet # 0 ->         \* lines 694-705
            /\ completeWebAuthnVerification(s.id)
            /\ UNCHANGED pendingCreate /\ hostIdle
       [] s.kind = "reject_get" /\ pendingGet # 0 ->           \* lines 860-864
            /\ promises' = Settle(pendingGet, "rejected", NoId)
            /\ pendingGet' = 0
            /\ UNCHANGED <<pendingCreate, autoTimers>> /\ hostIdle
       [] s.kind = "scan" /\ ScanFinds(hiddenField) ->         \* lines 635-668
            /\ handleMessage(Message("extracted_credential", "",
                                     PageId(hiddenField), 0), TRUE, TRUE)
            /\ UNCHANGED <<pendingCreate, pendingGet, promises, autoTimers>>
       [] OTHER ->
            /\ UNCHANGED <<pendingCreate, pendingGet, promises, autoTimers>>
            /\ hostIdle
  /\ UNCHANGED <<hiddenField, extractTimer, posted, appended>>
  /\ UNCHANGED <<persistedCreds, persistedLog, fabCount>> /\ UNCHANGED fabVars /\ UNCHANGED otherVars

(***************************************************************************)
(* The application                                                         *)
(***************************************************************************)
Outcomes == {"success", "fail", "throw"}

Start(creds, log, field) ==
  /\ storedCredentials = <<>>
  /\ persistedCreds = creds
  /\ persistedLog = log
  /\ storageQueue = <<Request(0, "getCreds", <<>>)>>
  /\ handlers = <<>>
  /\ scriptQueue = <<>>
  /\ pendingCreate = 0
  /\ pendingGet = 0
  /\ promises = <<>>
  /\ hiddenField = field
  /\ extractTimer = TRUE
  /\ autoTimers = 0
  /\ fabCount = 0
  /\ posted = 0
  /\ appended = <<>>
  /\ fabIn = NoInput
  /\ fabOut = <<>>
  /\ ticks = 0
  /\ wiped = {}

Init ==
  \E creds \in {NullBlob, JsonBlob(OldCreds)},
     log \in {NullBlob, JsonBlob(OldLog(LogCap))},
     field \in {0} \cup PageValues : Start(creds, log, field)

\* steps shared by every flow: initial load, extraction, page scripts
Common ==
  \/ \E ok \in BOOLEAN : loadStoredCredentials(ok)
  \/ \E h \in 1..Len(handlers), ok \in BOOLEAN : extractedWrite(h, ok)
  \/ extractCredentialsFromPage
  \/ runInjectedScript

Registration ==
  \/ \E h \in 1..Len(handlers), o \in Outcomes : registrationPrompt(h, o)
  \/ \E h \in 1..Len(handlers), ok \in BOOLEAN : registrationWrite(h, ok)

Verification ==
  \/ \E h \in 1..Len(handlers), o \in Outcomes : verificationPrompt(h, o)
  \/ \E h \in 1..Len(handlers) : verificationScanTimeout(h)
  \/ \E h \in 1..Len(handlers), ok \in BOOLEAN : verificationLogRead(h, ok)
  \/ \E h \in 1..Len(handlers), ok \in BOOLEAN : verificationLogWrite(h, ok)

\* the whole application
Next ==
  \/ Common
  \/ Registration
  \/ Verification
  \/ posted < MaxMsgs /\ \E u \in UserNames : credentialsCreate(u)
  \/ posted < MaxMsgs /\ \E pk \in BOOLEAN, at \in BOOLEAN, s \in StudentIds,
                               hw \in BOOLEAN, en \in BOOLEAN :
                            navigatorCredentialsGet(pk, at, s, hw, en)
  \/ posted < MaxMsgs /\ \E t \in {"mobile_fingerprint_trigger", "other"},
                            hw \in BOOLEAN, en \in BOOLEAN :
                            pagePostMessage(t, hw, en)
  \/ \E v \in PageValues : pageAddsField(v)
  \/ ticks < MaxTicks /\ pollInterval

Spec == Init /\ [][Next]_vars

\* the page only registers
NextReg ==
  \/ Common
  \/ Registration
  \/ posted < MaxRegs /\ \E u \in UserNames : credentialsCreate(u)

InitReg ==
  \E creds \in {NullBlob, JsonBlob(OldCreds)}, field \in {0, 1} :
     Start(creds, NullBlob, field)

SpecReg == InitReg /\ [][NextReg]_vars

\* the page only verifies
NextVer ==
  \/ Common
  \/ Verification
  \/ posted < MaxVers /\ \E s \in StudentIds, hw \in BOOLEAN, en \in BOOLEAN :
                            credentialsGet(s, hw, en)

InitVer ==
  \/ Start(NullBlob, NullBlob, 0)
  \/ Start(NullBlob, JsonBlob(OldLog(LogCap)), 2)
  \/ Start(JsonBlob(OldCreds), JsonBlob(OldLog(LogCap)), 0)

SpecVer == InitVer /\ [][NextVer]_vars

\* a verification-only run in which timers fire and AsyncStorage answers
NextWait ==
  \/ Common
  \/ Verification
  \/ posted < MaxWaits /\ \E s \in StudentIds, hw \in BOOLEAN, en \in BOOLEAN :
                             credentialsGet(s, hw, en)

TimerFires == \E h \in 1..Len(handlers) : verificationScanTimeout(h)
StorageAnswers ==
  \/ \E ok \in BOOLEAN : loadStoredCredentials(ok)
  \/ \E h \in 1..Len(handlers), ok \in BOOLEAN : extractedWrite(h, ok)
  \/ \E h \in 1..Len(handlers), ok \in BOOLEAN : verificationLogRead(h, ok)
  \/ \E h \in 1..Len(handlers), ok \in BOOLEAN : verificationLogWrite(h, ok)

SpecWait ==
  InitVer /\ [][NextWait]_vars /\ WF_vars(TimerFires) /\ WF_vars(StorageAnswers)

\* an attendance page: get calls of every kind and the manual trigger, over
\* stores that are empty, filled, or malformed
NextAttend ==
  \/ Common
  \/ Verification
  \/ posted < MaxCalls /\ \E pk \in BOOLEAN, at \in BOOLEAN, s \in StudentIds,
                                hw \in BOOLEAN, en \in BOOLEAN :
                             navigatorCredentialsGet(pk, at, s, hw, en)
  \/ posted < MaxCalls /\ \E hw \in BOOLEAN, en \in BOOLEAN :
                             pagePostMessage("mobile_fingerprint_trigger", hw, en)

InitAttend ==
  \/ Start(NullBlob, NullBlob, 0)
  \/ Start(NullBlob, NullBlob, 2)
  \/ Start(JsonBlob(OldCreds), NullBlob, 0)
  \/ Start(BadBlob, BadBlob, 1)

SpecAttend == InitAttend /\ [][NextAttend]_vars

\* a page that registers and verifies and carries no credential value: both
\* pending-request slots in use
NextSlots ==
  \/ \E ok \in BOOLEAN : loadStoredCredentials(ok)
  \/ extractCredentialsFromPage
  \/ runInjectedScript
  \/ Registration
  \/ Verification
  \/ posted < MaxSlotCalls /\ credentialsCreate("alice")
  \/ posted < MaxSlotCalls /\ credentialsGet("s1", TRUE, TRUE)

InitSlots == Start(NullBlob, NullBlob, 0)

SpecSlots == InitSlots /\ [][NextSlots]_vars

\* a page whose own scripts post extraction messages without a value, next to
\* the extraction of the bridge's timer and of the verification scan
NextPosts ==
  \/ Common
  \/ Verification
  \/ posted < MaxPosts /\ credentialsGet("s1", TRUE, TRUE)
  \/ posted < MaxPosts /\ pagePostMessage("extracted_credential", TRUE, TRUE)

InitPosts ==
  \/ Start(JsonBlob(OldCreds), NullBlob, 1)
  \/ Start(NullBlob, NullBlob, 0)

SpecPosts == InitPosts /\ [][NextPosts]_vars

\* a page whose own scripts post messages of an unknown type and payloads
\* that are not JSON, between its registrations
DroppedTypes == {"other", "not_json"}

NextDrop ==
  \/ \E ok \in BOOLEAN : loadStoredCredentials(ok)
  \/ runInjectedScript
  \/ Registration
  \/ posted < MaxDrops /\ credentialsCreate("alice")
  \/ posted < MaxDrops /\ \E t \in DroppedTypes : pagePostMessage(t, TRUE, TRUE)

InitDrop == Start(JsonBlob(OldCreds), NullBlob, 0)

SpecDrop == InitDrop /\ [][NextDrop]_vars

\* verifications that overlap while every prompt is approved and storage
\* answers every call: the log starts empty
NextOverlap ==
  \/ loadStoredCredentials(TRUE)
  \/ extractCredentialsFromPage
  \/ runInjectedScript
  \/ \E h \in 1..Len(handlers) : verificationPrompt(h, "success")
  \/ \E h \in 1..Len(handlers) : verificationScanTimeout(h)
  \/ \E h \in 1..Len(handlers) : verificationLogRead(h, TRUE)
  \/ \E h \in 1..Len(handlers) : verificationLogWrite(h, TRUE)
  \/ posted < MaxOverlap /\ credentialsGet("s1", TRUE, TRUE)

InitOverlap ==
  \/ Start(NullBlob, NullBlob, 0)
  \/ Start(JsonBlob(OldCreds), NullBlob, 0)

SpecOverlap == InitOverlap /\ [][NextOverlap]_vars

\* a page that gets its credential field late, and the bridge's timers
NextPoll ==
  \/ \E ok \in BOOLEAN : loadStoredCredentials(ok)
  \/ \E h \in 1..Len(handlers), ok \in BOOLEAN : extractedWrite(h, ok)
  \/ extractCredentialsFromPage
  \/ \E v \in PageValues : pageAddsField(v)
  \/ ticks < MaxTicks /\ pollInterval

InitPoll ==
  \/ Start(NullBlob, NullBlob, 0)
  \/ Start(JsonBlob(OldCreds), NullBlob, 0)
  \/ Start(NullBlob, NullBlob, 1)
  \/ Start(JsonBlob(OldCreds), NullBlob, 1)
  \/ Start(BadBlob, NullBlob, 0)

SpecPoll == InitPoll /\ [][NextPoll]_vars

\* registrations while the debug panel is shown and its buttons are pressed
NoRequest(op) == \A i \in 1..Len(storageQueue) : storageQueue[i].op # op

NextDebug ==
  \/ Common
  \/ Registration
  \/ posted < MaxDebugCalls /\ \E u \in UserNames : credentialsCreate(u)
  \/ NoRequest("getCreds") /\ reloadPress
  \/ NoRequest("removeCreds") /\ clearAllPress
  \/ \E ok \in BOOLEAN : clearAllServed(ok)

InitDebug ==
  \/ Start(JsonBlob(OldCreds), NullBlob, 0)
  \/ Start(JsonBlob(OldCreds), NullBlob, 1)

SpecDebug == InitDebug /\ [][NextDebug]_vars

(***************************************************************************)
(* Sequential use of saveVerificationRecord: each call starts when the     *)
(* previous one has returned.                                              *)
(***************************************************************************)
sequentialAppend ==
  /\ storageQueue = <<>>
  /\ \A h \in 1..Len(handlers) : handlers[h].pc = "done"
  /\ Len(appended) < MaxAppends
  /\ LET h == Len(handlers) + 1
         record == VerificationRecord(h, "s1", OldId, TRUE)
     IN /\ appended' = Append(appended, record)
        /\ handlers' = Append(handlers,
              [NewHandler(Message("webauthn_get", "s1", NoId, 0), <<>>,
                          "ver_log_read") EXCEPT !.logged = <<record>>])
        /\ saveVerificationRecordStart(h)
  /\ UNCHANGED <<storedCredentials, persistedCreds, persistedLog, scriptQueue,
                 fabCount, posted>>
  /\ UNCHANGED pageVars /\ UNCHANGED fabVars /\ UNCHANGED otherVars

\* nothing in flight: the initial load has been served, the page is quiet
Quiet ==
  /\ storedCredentials = <<>>
  /\ persistedCreds = NullBlob
  /\ persistedLog = NullBlob
  /\ storageQueue = <<>>
  /\ handlers = <<>>
  /\ scriptQueue = <<>>
  /\ pendingCreate = 0
  /\ pendingGet = 0
  /\ promises = <<>>
  /\ hiddenField = 0
  /\ extractTimer = FALSE
  /\ autoTimers = 0
  /\ fabCount = 0
  /\ posted = 0
  /\ appended = <<>>
  /\ ticks = 0
  /\ wiped = {}

InitSeq == Quiet /\ fabIn = NoInput /\ fabOut = <<>>

NextSeq ==
  \/ sequentialAppend
  \/ \E h \in 1..Len(handlers) : verificationLogRead(h, TRUE)
  \/ \E h \in 1..Len(handlers) : verificationLogWrite(h, TRUE)

SpecSeq == InitSeq /\ [][NextSeq]_vars

(***************************************************************************)
(* The fabricator on its own                                               *)
(***************************************************************************)
FracDigits == {0, 35}
RECURSIVE SeqsUpTo(_, _)
SeqsUpTo(S, n) ==
  IF n = 0 THEN {<<>>}
  ELSE SeqsUpTo(S, n - 1) \cup
       {Append(q, d) : q \in {r \in SeqsUpTo(S, n - 1) : Len(r) = n - 1}, d \in S}
LongFrac == [i \in 1..(RandomLen + 2) |-> IF i > RandomLen THEN 35 ELSE i]
Fractions == SeqsUpTo(FracDigits, MaxFrac) \cup {LongFrac}

fabricate ==
  /\ fabOut = <<>>
  /\ fabOut' = generateRealisticCredentialId(fabIn)
  /\ UNCHANGED <<fabIn, scriptQueue, posted, appended>>
  /\ UNCHANGED hostVars /\ UNCHANGED pageVars /\ UNCHANGED otherVars

InitFab ==
  /\ Quiet
  /\ fabIn \in [ts : 0..MaxClock, frac : Fractions, os : Platforms]
  /\ fabOut = <<>>

SpecFab == InitFab /\ [][fabricate]_vars

(***************************************************************************)
(* Properties                                                              *)
(***************************************************************************)
Hs == 1..Len(handlers)
IsReg(h) == handlers[h].type = "webauthn_create"
IsVer(h) == handlers[h].type \in {"webauthn_get", "mobile_fingerprint_trigger"}
Requests(h) == {i \in 1..Len(storageQueue) : storageQueue[i].h = h}
Range(q) == {q[i] : i \in 1..Len(q)}
ScriptRuns(kind) ==
  /\ scriptQueue # <<>>
  /\ Head(scriptQueue).kind = kind
  /\ scriptQueue' = Tail(scriptQueue)
Min(a, b) == IF a < b THEN a ELSE b
LastOf(q, n) == SubSeq(q, Len(q) - n + 1, Len(q))

\* C1 as stated: every registration whose biometric prompt succeeds has, once
\* its handler returns, built exactly one Credential Record and injected
\* exactly one completion script, which carries the fabricated id.
C1_EverySuccessCompletes ==
  \A h \in Hs :
    (IsReg(h) /\ handlers[h].auth = "success" /\ handlers[h].pc = "done") =>
      /\ handlers[h].newRecs = 1
      /\ handlers[h].scripts =
           <<[kind |-> "complete_create", id |-> handlers[h].cred]>>

\* C1 amended: a registration whose biometric prompt succeeds puts exactly one
\* new Credential Record, holding the id fabricated for it, into the in-memory
\* map under the message's userIdentifier; when the storage write then
\* succeeds the record is persisted under that key and exactly one completion
\* script with the same id is injected; when the write throws, none is.
C1_SuccessStoresAndCompletes ==
  /\ [](\A h \in Hs :
          (IsReg(h) /\ handlers[h].auth = "success") =>
            /\ handlers[h].newRecs = 1
            /\ handlers[h].fabricated = 1
            /\ handlers[h].cred.src = "fab"
            /\ handlers[h].stored = "ok" =>
                 handlers[h].scripts =
                   <<[kind |-> "complete_create", id |-> handlers[h].cred]>>
            /\ handlers[h].stored # "ok" => handlers[h].scripts = <<>>)
  /\ [][\A h \in Hs :
          (handlers[h].pc = "reg_prompt" /\ handlers'[h].auth = "success") =>
            /\ HasKey(storedCredentials', handlers[h].user)
            /\ Lookup(storedCredentials', handlers[h].user).id = handlers'[h].cred
            /\ \A r \in Range(storedCredentials) : r.id # handlers'[h].cred
            /\ \A r \in Range(storedCredentials') :
                  r.key # handlers[h].user => r \in Range(handlers[h].closure)]_vars
  /\ [][\A h \in Hs :
          (handlers[h].pc = "reg_write" /\ handlers'[h].stored = "ok") =>
            /\ persistedCreds'.kind = "json"
            /\ HasKey(persistedCreds'.val, handlers[h].user)
            /\ Lookup(persistedCreds'.val, handlers[h].user).id = handlers[h].cred]_vars

C1_Witness ==
  \E h \in Hs :
    /\ IsReg(h) /\ handlers[h].auth = "success" /\ handlers[h].stored = "ok"
    /\ handlers[h].user = "alice"
    /\ HasKey(storedCredentials, "alice")
    /\ Lookup(storedCredentials, "alice").id = handlers[h].cred
    /\ handlers[h].scripts = <<[kind |-> "complete_create", id |-> handlers[h].cred]>>

\* C2: a registration whose biometric prompt fails or is cancelled leaves the
\* in-memory map and the persisted blob as they are and issues no storage
\* request; it injects one script, and when that script runs the request held
\* in the page's create slot is rejected and the slot is empty.
C2_CancelledRegistration ==
  /\ [](\A h \in Hs :
          (IsReg(h) /\ handlers[h].auth = "fail") =>
            /\ handlers[h].pc = "done"
            /\ handlers[h].newRecs = 0
            /\ handlers[h].stored = "none"
            /\ Requests(h) = {}
            /\ handlers[h].scripts = <<[kind |-> "reject_create", id |-> NoId]>>)
  /\ [][\A h \in Hs :
          (handlers[h].pc = "reg_prompt" /\ handlers'[h].auth = "fail") =>
            UNCHANGED <<storedCredentials, persistedCreds, storageQueue>>]_vars
  /\ [][ScriptRuns("reject_create") =>
          /\ pendingCreate' = 0
          /\ pendingCreate # 0 => promises'[pendingCreate].state = "rejected"]_vars

C2_Witness ==
  /\ pendingCreate = 0
  /\ \E p \in 1..Len(promises) :
        promises[p].kind = "create" /\ promises[p].state = "rejected"
  /\ \E h \in Hs : IsReg(h) /\ handlers[h].auth = "fail"

\* C3: the persisted verification log never holds more than 50 entries, and
\* no write request for it does.
C3_LogBounded ==
  /\ Len(ParsedRecords(persistedLog)) <= LogCap
  /\ \A i \in 1..Len(storageQueue) :
        storageQueue[i].op = "setLog" => Len(storageQueue[i].val) <= LogCap

C3_Witness ==
  /\ Len(ParsedRecords(persistedLog)) = LogCap
  /\ persistedLog.val[LogCap].ts >= 1
  /\ persistedLog.val[1].ts > 1 - LogCap

\* C4: after N appends made one after the other on an empty log, the log is
\* the last min(N, 50) appended records in append order; after 51 appends it
\* has 50 entries and starts with the second record appended.
C4_SequentialLog ==
  storageQueue = <<>> =>
    /\ ParsedRecords(persistedLog) =
         LastOf(appended, Min(Len(appended), LogCap))
    /\ Len(appended) = LogCap + 1 =>
         /\ Len(ParsedRecords(persistedLog)) = LogCap
         /\ persistedLog.val[1] = appended[2]

C4_Witness ==
  /\ storageQueue = <<>>
  /\ Len(appended) = LogCap + 1
  /\ Len(ParsedRecords(persistedLog)) = LogCap
  /\ persistedLog.val[1] = appended[2]

C8_OneHandlerAtATime ==
  Cardinality({h \in Hs : handlers[h].pc # "done"}) <= 1

\* C9: an owner key that is in the credential map stays in it (no step of a
\* registration, extraction or verification flow removes a key).
C9_KeysStay ==
  [][\A k \in Keys(storedCredentials) : k \in Keys(storedCredentials')]_vars

\* C10: a fabricated credential id contains no '+', no '/' and does not end
\* with '='.
C10_UrlSafe ==
  /\ \A i \in 1..Len(fabOut) : fabOut[i] # Plus /\ fabOut[i] # Slash
  /\ fabOut # <<>> => fabOut[Len(fabOut)] # Pad

C10_Witness ==
  /\ fabOut # <<>>
  /\ btoa(IdSource(fabIn))[Len(btoa(IdSource(fabIn)))] = Pad
  /\ Len(fabIn.frac) > RandomLen

LastRecord(blob) == blob.val[Len(blob.val)]
CopiesInLog(record) ==
  Cardinality({i \in 1..Len(ParsedRecords(persistedLog)) :
                  persistedLog.val[i] = record})

\* C11: a verification message (webauthn_get or mobile_fingerprint_trigger)
\* handled while biometric hardware is absent or nothing is enrolled raises
\* the Biometric Unavailable alert and returns at once: the handler never
\* reaches the biometric prompt, injects no script, issues no storage request
\* and builds no Credential or Verification Record.
C11_UnavailableAborts ==
  /\ [][\A s \in StudentIds, hw \in BOOLEAN, en \in BOOLEAN :
          ((~hw \/ ~en) /\ (\/ credentialsGet(s, hw, en)
                            \/ pagePostMessage("mobile_fingerprint_trigger", hw, en))) =>
            /\ Len(handlers') = Len(handlers) + 1
            /\ handlers'[Len(handlers')].alerts = <<"Biometric Unavailable">>
            /\ handlers'[Len(handlers')].pc = "done"
            /\ UNCHANGED <<scriptQueue, storageQueue, storedCredentials,
                           persistedCreds, persistedLog>>]_vars
  /\ [](\A h \in Hs :
          (IsVer(h) /\ handlers[h].alerts # <<>>
             /\ handlers[h].alerts[1] = "Biometric Unavailable") =>
            /\ handlers[h].pc = "done"
            /\ handlers[h].auth = "none"
            /\ handlers[h].scripts = <<>>
            /\ handlers[h].newRecs = 0
            /\ handlers[h].logged = <<>>
            /\ Requests(h) = {})

C11_Witness ==
  /\ \E h \in Hs :
        /\ handlers[h].type = "webauthn_get"
        /\ handlers[h].alerts = <<"Biometric Unavailable">>
        /\ handlers[h].pc = "done"
        /\ pendingGet = handlers[h].p
  /\ scriptQueue = <<>>
  /\ storageQueue = <<>>
  /\ persistedLog = NullBlob

C13_FailedRegistrationLeavesNothing ==
  \A h \in Hs :
    (IsReg(h) /\ handlers[h].pc = "done"
       /\ (handlers[h].auth = "throw" \/ handlers[h].stored = "failed")) =>
      /\ handlers[h].alerts = <<"Error">>
      /\ handlers[h].cred # NoId =>
           /\ \A r \in Range(storedCredentials) : r.id # handlers[h].cred
           /\ persistedCreds.kind = "json" =>
                \A r \in Range(persistedCreds.val) : r.id # handlers[h].cred

\* C14: when loadStoredCredentials is served while the persisted credential
\* blob is malformed, the in-memory credential map is empty afterwards,
\* whatever it held before.
C14_MalformedLoadEmpties ==
  [][(persistedCreds.kind = "bad" /\ \E ok \in BOOLEAN : loadStoredCredentials(ok)) =>
        storedCredentials' = <<>>]_vars

\* C15: when saveVerificationRecord reads a malformed log blob it goes on as
\* with an empty log: it writes a list holding exactly the record it was
\* given.
C15_MalformedLogRestarts ==
  [][\A h \in Hs :
        (persistedLog.kind = "bad" /\ verificationLogRead(h, TRUE)) =>
          /\ handlers'[h].pc = "ver_log_write"
          /\ storageQueue'[Len(storageQueue')] =
               Request(h, "setLog", <<handlers[h].logged[1]>>)]_vars

Ps == 1..Len(promises)
ScriptsOf(h, kind) ==
  {i \in 1..Len(handlers[h].scripts) : handlers[h].scripts[i].kind = kind}
Queued(h, kind) ==
  \E i \in 1..Len(scriptQueue) : scriptQueue[i].h = h /\ scriptQueue[i].kind = kind

\* C16: a completion script that runs while the pending-request slot of its
\* kind is empty settles no promise, leaves both slots as they are and sets
\* no auto-fill or auto-submit timer of the completion entry point.
C16_EmptySlotNoOp ==
  /\ [][(ScriptRuns("complete_create") /\ pendingCreate = 0) =>
          UNCHANGED <<promises, pendingCreate, pendingGet, autoTimers>>]_vars
  /\ [][(ScriptRuns("complete_get") /\ pendingGet = 0) =>
          UNCHANGED <<promises, pendingCreate, pendingGet, autoTimers>>]_vars

C16_Witness ==
  /\ scriptQueue = <<>>
  /\ Cardinality({h \in Hs : IsReg(h) /\ ScriptsOf(h, "complete_create") # {}}) = 2
  /\ Cardinality({p \in Ps : promises[p].state = "resolved"}) = 1
  /\ autoTimers = 1
  /\ pendingCreate = 0

\* C17: each slot holds nothing or one request whose promise is still
\* pending; a promise is settled only while it is the one held in the slot of
\* its kind, and the slot is emptied in that same step; a settled promise
\* never changes again, and every entry-point timer belongs to one settlement.
C17_SettledOnce ==
  /\ [](/\ pendingCreate # 0 =>
             /\ promises[pendingCreate].kind = "create"
             /\ promises[pendingCreate].state = "pending"
        /\ pendingGet # 0 =>
             /\ promises[pendingGet].kind = "get"
             /\ promises[pendingGet].state = "pending"
        /\ autoTimers = Cardinality({p \in Ps : promises[p].state = "resolved"}))
  /\ [][\A p \in Ps :
          promises[p].state # "pending" => promises'[p] = promises[p]]_vars
  /\ [][\A p \in Ps :
          (promises[p].state = "pending" /\ promises'[p].state # "pending") =>
            \/ pendingCreate = p /\ pendingCreate' = 0
            \/ pendingGet = p /\ pendingGet' = 0]_vars

C17_Witness ==
  /\ scriptQueue = <<>>
  /\ pendingGet = 0
  /\ Cardinality({h \in Hs : IsVer(h) /\ ScriptsOf(h, "complete_get") # {}}) = 2
  /\ Cardinality({p \in Ps : promises[p].kind = "get"}) = 2
  /\ Cardinality({p \in Ps : promises[p].state = "resolved"}) = 1
  /\ autoTimers = 1

\* C18: a get call of the page without public-key options, or on a page
\* without the attendance/verification context, starts no handler and leaves
\* the pending get slot and the promises as they are; a call with both stores
\* one new pending request in the get slot and starts exactly one handler, for
\* a webauthn_get message of that request.
C18_OnlyMatchingGetPosts ==
  [][\A pk \in BOOLEAN, at \in BOOLEAN, s \in StudentIds,
        hw \in BOOLEAN, en \in BOOLEAN :
        navigatorCredentialsGet(pk, at, s, hw, en) =>
          IF pk /\ at
          THEN /\ promises' = Append(promises, Promise("get", s))
               /\ pendingGet' = Len(promises')
               /\ Len(handlers') = Len(handlers) + 1
               /\ handlers'[Len(handlers')].type = "webauthn_get"
               /\ handlers'[Len(handlers')].p = pendingGet'
               /\ handlers'[Len(handlers')].user = s
               /\ SubSeq(handlers', 1, Len(handlers)) = handlers
          ELSE UNCHANGED <<handlers, pendingGet, pendingCreate, promises,
                           scriptQueue, storageQueue>>]_vars

C18_Witness ==
  /\ posted = 1
  /\ promises = <<>>
  /\ pendingGet = 0
  /\ ~ \E h \in Hs : IsVer(h)

C20_ScannedValueIsUsed ==
  [][\A h \in Hs :
        (handlers[h].pc = "ver_scan_wait" /\ handlers'[h].pc # "ver_scan_wait"
           /\ ~Queued(h, "scan") /\ ScanFinds(hiddenField)) =>
          /\ handlers'[h].cred = PageId(hiddenField)
          /\ handlers'[h].fabricated = 0]_vars

\* C21: the bridge scans again on every poll, so a qualifying hidden field is
\* forwarded by the time a poll has run after it appeared: an
\* extracted_credential message with its value has reached the host.
C21_LateFieldForwarded ==
  (TimerFinds(hiddenField) /\ ~extractTimer /\ ticks >= 1) =>
    \E h \in Hs : /\ handlers[h].type = "extracted_credential"
                  /\ handlers[h].cid = PageId(hiddenField)

\* the handler that a step has just added for a message, if it added one
Dispatched == Len(handlers') = Len(handlers) + 1

Newest == handlers'[Len(handlers')]

\* C22: an extracted_credential message with a credentialId stores a record
\* with that id, unchanged, under the one key "extracted_user": the keys of
\* the map grow by at most that key, the records under other keys stay as
\* they are, and the map is handed to storage; a message without a
\* credentialId changes neither the map nor storage.
C22_ExtractionUsesOneKey ==
  [][(Dispatched /\ Newest.type = "extracted_credential") =>
       IF Newest.cid # NoId
       THEN /\ HasKey(storedCredentials', "extracted_user")
            /\ Lookup(storedCredentials', "extracted_user") =
                 CredRecord("extracted_user", Newest.cid, "extracted")
            /\ Keys(storedCredentials') =
                 Keys(storedCredentials) \cup {"extracted_user"}
            /\ \A k \in Keys(storedCredentials) \ {"extracted_user"} :
                 Lookup(storedCredentials', k) = Lookup(storedCredentials, k)
            /\ storageQueue' = Append(storageQueue,
                 Request(Len(handlers'), "setCreds", storedCredentials'))
       ELSE UNCHANGED <<storedCredentials, storageQueue, persistedCreds,
                        persistedLog, scriptQueue>>]_vars

\* C22: two extraction messages with a value have been stored, and the map
\* holds the earlier record next to the single extraction key
C22_Witness ==
  /\ \E g, h \in Hs :
       /\ g # h
       /\ handlers[g].type = "extracted_credential" /\ handlers[g].cid # NoId
       /\ handlers[h].type = "extracted_credential" /\ handlers[h].cid # NoId
       /\ handlers[g].pc = "done" /\ handlers[h].pc = "done"
  /\ Keys(storedCredentials) = {"alice", "extracted_user"}
  /\ Lookup(storedCredentials, "alice").id = OldId

\* C23: a message of an unknown type, or one whose payload does not parse, is
\* dropped: its handler ends at once without alert, prompt or script, and
\* the map, the stored blobs, the storage queue, the script queue, both
\* slots and the promises are as before; every message the page has sent,
\* also after a dropped one, has been handed to the router.
C23_UnknownIsDropped ==
  /\ [][(Dispatched /\ Newest.type \in DroppedTypes) =>
          /\ Newest.pc = "done"
          /\ Newest.auth = "none"
          /\ Newest.alerts = <<>>
          /\ Newest.scripts = <<>>
          /\ UNCHANGED <<storedCredentials, persistedCreds, persistedLog,
                         storageQueue, scriptQueue, pendingCreate, pendingGet,
                         promises>>]_vars
  /\ [](Len(handlers) = posted)

\* C23: a registration that the page asked for after a dropped message has
\* been handled to its end
C23_Witness ==
  \E g, h \in Hs :
    /\ g < h
    /\ handlers[g].type \in DroppedTypes
    /\ handlers[h].type = "webauthn_create"
    /\ handlers[h].pc = "done"
    /\ handlers[h].stored = "ok"
    /\ promises[handlers[h].p].state = "resolved"


\* C24: a page promise is settled only by the response to its own message: a
\* resolved promise carries the id that the handler of its own call produced.
C24_OwnResponseOnly ==
  \A p \in Ps :
    promises[p].state = "resolved" =>
      \E h \in Hs : handlers[h].p = p /\ handlers[h].cred = promises[p].val

\* C25: once the handler of a create or get call has returned and the page has
\* run the scripts it injected, the promise of that call is resolved or
\* rejected and the slot of its kind no longer holds it.
C25_ReturnedMeansSettled ==
  \A h \in Hs :
    ( /\ handlers[h].type \in {"webauthn_create", "webauthn_get"}
      /\ handlers[h].pc = "done"
      /\ \A i \in 1..Len(scriptQueue) : scriptQueue[i].h # h ) =>
        /\ promises[handlers[h].p].state # "pending"
        /\ pendingCreate # handlers[h].p
        /\ pendingGet # handlers[h].p

\* the owner keys of a credential map with the id held under each
KeyIds(map) == {<<map[i].key, map[i].id>> : i \in 1..Len(map)}

\* C26: whenever a save or a clear is answered by storage, with success or
\* with an error, and leaves no storage operation in flight (the initial load
\* has been answered by then), the in-memory map and the persisted blob hold
\* the same owner keys with the same ids.
C26_MemoryMatchesBlob ==
  [][( /\ storageQueue # <<>>
       /\ storageQueue[1].op \in {"setCreds", "removeCreds"}
       /\ storageQueue' = <<>> ) =>
         KeyIds(storedCredentials') = KeyIds(ParsedCredentials(persistedCreds'))]_vars

\* C27: at the step that resolves a create promise with an id, the in-memory
\* map holds a record with that id under the user identifier of the request.
C27_StoredBeforeResolved ==
  [][\A p \in Ps :
       ( /\ promises[p].kind = "create"
         /\ promises[p].state = "pending"
         /\ promises'[p].state = "resolved" ) =>
           /\ HasKey(storedCredentials', RegistrationKey(promises[p].user))
           /\ Lookup(storedCredentials', RegistrationKey(promises[p].user)).id =
                promises'[p].val]_vars

\* C28: once every verification handler has finished and storage is idle, the
\* persisted log holds the record of each handler that reached
\* saveVerificationRecord, once.
C28_NoAppendLost ==
  ( /\ storageQueue = <<>>
    /\ \A h \in Hs : handlers[h].pc = "done" ) =>
      \A h \in Hs : \A i \in 1..Len(handlers[h].logged) :
        CopiesInLog(handlers[h].logged[i]) = 1

====
